---- MODULE Spec2Model ----
(***************************************************************************)
(* upb_msg.h: the run-time description of a .proto message type (struct    *)
(* upb_msg), its two lookup tables, the "set" flags at the head of every   *)
(* instance, and the offset-based accessors.                               *)
(*                                                                         *)
(* An instance is a hunk of memory: a function from byte addresses         *)
(* 0..size-1 to bytes 0..255.  C integers keep their width: a byte is      *)
(* 0..255, plain char follows the build (signed or unsigned), int is 32    *)
(* bits two's complement.                                                  *)
(***************************************************************************)
EXTENDS Integers, Sequences, FiniteSets, TLC

VARIABLES
  plat,     \* the build: signedness of plain char, byte order, pointer size
  m,        \* struct upb_msg, or NoMsg before upb_msg_init / after a failed one
  s,        \* the instance memory, void *s
  s0,       \* history: the instance memory at the start
  lastOp,   \* history: per field index, the most recent set/unset applied
  nops,     \* history: number of mutating calls made so far
  last,     \* history: the most recent call, its arguments and what it returned
  pc,       \* per thread: position inside upb_msg_set / upb_msg_unset
  tmp,      \* per thread: the byte it loaded
  lock      \* the embedding system's lock: its holder, or NoThread

vars == <<plat, m, s, s0, lastOp, nops, last, pc, tmp, lock>>

(***************************************************************************)
(* Bounds                                                                  *)
(***************************************************************************)
MaxFields == 9
MaxOps == 2

(***************************************************************************)
(* C arithmetic                                                            *)
(***************************************************************************)
Byte == 0..255

RECURSIVE Pow2(_)
Pow2(n) == IF n = 0 THEN 1 ELSE 2 * Pow2(n - 1)

\* a & b and a | b on two's complement ints.  Floor division and a non-negative
\* remainder read the bits of a negative int with its sign extended, so the
\* recursion ends at 0 or -1 and the result of two 32-bit ints is a 32-bit int.
RECURSIVE IntAnd(_, _)
IntAnd(a, b) ==
  IF a = 0 \/ b = 0 THEN 0
  ELSE IF a = -1 THEN b
  ELSE IF b = -1 THEN a
  ELSE (a % 2) * (b % 2) + 2 * IntAnd(a \div 2, b \div 2)

RECURSIVE IntOr(_, _)
IntOr(a, b) ==
  IF a = -1 \/ b = -1 THEN -1
  ELSE IF a = 0 THEN b
  ELSE IF b = 0 THEN a
  ELSE (IF (a % 2) + (b % 2) > 0 THEN 1 ELSE 0) + 2 * IntOr(a \div 2, b \div 2)

IntNot(a) == -a - 1

\* reading memory through a char lvalue, and storing an int through one
CharOf(b, p) == IF p.char_signed /\ b >= 128 THEN b - 256 ELSE b
ByteOf(x) == x % 256

div_round_up(n, d) == (n + d - 1) \div d

(***************************************************************************)
(* The build                                                               *)
(***************************************************************************)
Platform(cs, be, ps) == [char_signed |-> cs, big_endian |-> be, ptr_size |-> ps]

(***************************************************************************)
(* The message description (struct upb_msg) and its construction           *)
(***************************************************************************)
NoMsg == [ok |-> FALSE]
NULL == [null |-> TRUE]

\* google_protobuf_DescriptorProto as the schema loader hands it over: the
\* declared fields in declaration order, each with the offset the struct layout
\* gives it, and the size of the struct.
FieldProto(num, name, type, label, off) ==
  [number |-> num, name |-> name, type |-> type, label |-> label, byte_offset |-> off]

DescriptorProto(fs, size) == [field |-> fs, size |-> size]

DeclIdx(d) == 0 .. (Len(d.field) - 1)
Decl(d, i) == d.field[i + 1]

IsRequired(d, i) == Decl(d, i).label = "required"

\* position of declared field i once the required fields are put first
\* (declaration order kept within each group)
IndexOf(d, i) ==
  IF IsRequired(d, i)
    THEN Cardinality({j \in DeclIdx(d) : IsRequired(d, j) /\ j < i})
    ELSE Cardinality({j \in DeclIdx(d) : IsRequired(d, j)})
         + Cardinality({j \in DeclIdx(d) : ~IsRequired(d, j) /\ j < i})

DeclAt(d, k) == CHOOSE i \in DeclIdx(d) : IndexOf(d, i) = k

WellFormed(d) ==
  /\ \A i, j \in DeclIdx(d) :
       i # j => /\ Decl(d, i).number # Decl(d, j).number
                /\ Decl(d, i).name # Decl(d, j).name
  /\ \A i \in DeclIdx(d) : Decl(d, i).byte_offset >= 0

upb_msg_field(d, k) ==
  [descriptor |-> DeclAt(d, k),
   byte_offset |-> Decl(d, DeclAt(d, k)).byte_offset,
   field_index |-> k,
   ref |-> "unresolved"]

upb_abbrev_msg_field(d, i) ==
  [byte_offset |-> Decl(d, i).byte_offset,
   field_index |-> IndexOf(d, i),
   type |-> Decl(d, i).type,
   ref |-> "unresolved"]

upb_fieldsbynum_entry(key, f) == [e |-> [key |-> key], f |-> f]
upb_fieldsbyname_entry(key, f) == [e |-> [key |-> key], f |-> f]

upb_msg_init(d) ==
  IF ~WellFormed(d) THEN NoMsg
  ELSE
    [ok |-> TRUE,
     descriptor |-> d,
     size |-> d.size,
     num_fields |-> Len(d.field),
     set_flags_bytes |-> div_round_up(Len(d.field), 8),
     num_required_fields |-> Cardinality({i \in DeclIdx(d) : IsRequired(d, i)}),
     fields_by_num |->
       [n \in {Decl(d, i).number : i \in DeclIdx(d)} |->
          upb_fieldsbynum_entry(n,
            upb_abbrev_msg_field(d, CHOOSE i \in DeclIdx(d) : Decl(d, i).number = n))],
     fields_by_name |->
       [n \in {Decl(d, i).name : i \in DeclIdx(d)} |->
          upb_fieldsbyname_entry(n,
            upb_abbrev_msg_field(d, CHOOSE i \in DeclIdx(d) : Decl(d, i).name = n))],
     fields |-> [k \in DeclIdx(d) |-> upb_msg_field(d, k)]]

upb_msg_free(msg) == NoMsg

\* the keyed tables of upb_table.h: the entry stored under the key, or NULL
upb_inttable_lookup(table, key) == IF key \in DOMAIN table THEN table[key] ELSE NULL
upb_strtable_lookup(table, key) == IF key \in DOMAIN table THEN table[key] ELSE NULL

\* "return &e->f" without the test of e: on a miss, an address next to NULL
fieldbynum_unchecked(msg, number) ==
  LET e == upb_inttable_lookup(msg.fields_by_num, number)
  IN IF e # NULL THEN e.f ELSE [dangling |-> TRUE]

upb_msg_fieldbynum(msg, number) ==
  LET e == upb_inttable_lookup(msg.fields_by_num, number)
  IN IF e # NULL THEN e.f ELSE NULL

upb_msg_fieldbyname(msg, name) ==
  LET e == upb_strtable_lookup(msg.fields_by_name, name)
  IN IF e # NULL THEN e.f ELSE NULL

\* indexing the field list by the place in the table instead of field_index
get_msg_field_by_offset(f, msg) == msg.fields[f.byte_offset % msg.num_fields]

upb_get_msg_field(f, msg) == msg.fields[f.field_index]

(***************************************************************************)
(* Accessors for primitive types (UPB_DEFINE_ACCESSORS)                    *)
(***************************************************************************)
\* the accessor families instantiated, by name
AccessorNames ==
  {"double", "float", "int32", "int64", "uint32", "uint64", "bool",
   "bytes", "string", "substruct", "array"}

\* sizeof(ctype) of an accessor family on build p
SizeOf(name, p) ==
  CASE name \in {"double", "int64", "uint64"} -> 8
    [] name \in {"float", "int32", "uint32"} -> 4
    [] name = "bool" -> 1
    [] OTHER -> p.ptr_size

\* A value of a ctype is written as its sizeof(ctype) base-256 digits, most
\* significant first (for a float or a pointer: its bit pattern).  In memory the
\* digits lie in the byte order of the host.
ObjectByte(val, k, n, p) == IF p.big_endian THEN val[k + 1] ELSE val[n - k]

\* *ptr = val
StoreThrough(mem, ptr, val, p) ==
  LET n == SizeOf(ptr.ctype, p)
  IN [a \in DOMAIN mem |->
        IF ptr.addr <= a /\ a < ptr.addr + n
          THEN ObjectByte(val, a - ptr.addr, n, p)
          ELSE mem[a]]

\* *ptr
LoadThrough(mem, ptr, p) ==
  LET n == SizeOf(ptr.ctype, p)
  IN [j \in 1..n |->
        IF p.big_endian THEN mem[ptr.addr + j - 1] ELSE mem[ptr.addr + n - j]]

upb_msg_get_ptr(name, f) == [addr |-> f.byte_offset, ctype |-> name]

upb_msg_get(name, mem, f, p) == LoadThrough(mem, upb_msg_get_ptr(name, f), p)

\* an 8-byte family instantiated with a 4-byte ctype: the store keeps the low
\* four bytes of the value only
set_as_int32(name, mem, f, val, p) ==
  LET n == SizeOf(name, p)
  IN IF n <= 4 THEN StoreThrough(mem, upb_msg_get_ptr(name, f), val, p)
     ELSE StoreThrough(mem, upb_msg_get_ptr("int32", f),
                       [j \in 1..4 |-> val[n - 4 + j]], p)

upb_msg_set_value(name, mem, f, val, p) ==
  StoreThrough(mem, upb_msg_get_ptr(name, f), val, p)

(***************************************************************************)
(* The "set" flags                                                         *)
(***************************************************************************)
upb_isset_offset(field_index) == field_index \div 8

upb_isset_mask(field_index) == ByteOf(Pow2(field_index % 8))

\* set with "=" in place of "|="
set_assigns(mem, f, p) ==
  [mem EXCEPT ![upb_isset_offset(f.field_index)] = upb_isset_mask(f.field_index)]

upb_msg_set(mem, f, p) ==
  LET o == upb_isset_offset(f.field_index)
  IN [mem EXCEPT ![o] =
        ByteOf(IntOr(CharOf(mem[o], p), upb_isset_mask(f.field_index)))]

\* unset with the logical instead of the bitwise complement: "&= !mask"
unset_logical_not(mem, f, p) ==
  LET o == upb_isset_offset(f.field_index)
  IN [mem EXCEPT ![o] =
        ByteOf(IntAnd(CharOf(mem[o], p),
                      IF upb_isset_mask(f.field_index) = 0 THEN 1 ELSE 0))]

upb_msg_unset(mem, f, p) ==
  LET o == upb_isset_offset(f.field_index)
  IN [mem EXCEPT ![o] =
        ByteOf(IntAnd(CharOf(mem[o], p), IntNot(upb_isset_mask(f.field_index))))]

upb_msg_is_set(mem, f, p) ==
  IntAnd(CharOf(mem[upb_isset_offset(f.field_index)], p),
         upb_isset_mask(f.field_index)) # 0

\* a read of instance byte i; past the end of the instance the read is out of
\* bounds and yields whatever the build finds there (junk)
ReadByte(mem, i, junk) == IF i \in DOMAIN mem THEN mem[i] ELSE junk

\* the loop of upb_msg_all_required_fields_set: [ret, reads], reads being the
\* byte indices it has dereferenced
RECURSIVE RequiredLoop(_, _, _, _, _)
RequiredLoop(mem, num_fields, i, reads, junk) ==
  IF num_fields > 8
    THEN IF ReadByte(mem, i, junk) # 255
           THEN [ret |-> FALSE, reads |-> reads \cup {i}]
           ELSE RequiredLoop(mem, num_fields - 8, i + 1, reads \cup {i}, junk)
    ELSE IF ReadByte(mem, i, junk) # Pow2(num_fields) - 1
           THEN [ret |-> FALSE, reads |-> reads \cup {i}]
           ELSE [ret |-> TRUE, reads |-> reads \cup {i}]

\* the loop as it would be with "while(num_fields >= 8)"
RECURSIVE RequiredLoopGe(_, _, _, _, _)
RequiredLoopGe(mem, num_fields, i, reads, junk) ==
  IF num_fields >= 8
    THEN IF ReadByte(mem, i, junk) # 255
           THEN [ret |-> FALSE, reads |-> reads \cup {i}]
           ELSE RequiredLoopGe(mem, num_fields - 8, i + 1, reads \cup {i}, junk)
    ELSE IF ReadByte(mem, i, junk) # Pow2(num_fields) - 1
           THEN [ret |-> FALSE, reads |-> reads \cup {i}]
           ELSE [ret |-> TRUE, reads |-> reads \cup {i}]

all_required_fields_set_ge(mem, msg, junk) ==
  RequiredLoopGe(mem, msg.num_required_fields, 0, {}, junk)

upb_msg_all_required_fields_set(mem, msg, junk) ==
  RequiredLoop(mem, msg.num_required_fields, 0, {}, junk)

\* memset over the whole bytes of flags only, num_fields / 8 of them
clear_whole_bytes(mem, msg) ==
  [a \in DOMAIN mem |-> IF a < msg.num_fields \div 8 THEN 0 ELSE mem[a]]

upb_msg_clear(mem, msg) ==
  [a \in DOMAIN mem |-> IF a < msg.set_flags_bytes THEN 0 ELSE mem[a]]

(***************************************************************************)
(* Instances and message types the presence operations are run on          *)
(***************************************************************************)
\* a message type of nf bool fields of which the last nr declared are required;
\* the struct is the set flags followed by one byte per field
FlagsSchema(nf, nr) ==
  DescriptorProto(
    [i \in 1..nf |->
       FieldProto(i, <<"f", i>>, "bool",
                  IF i > nf - nr THEN "required" ELSE "optional",
                  div_round_up(nf, 8) + (i - 1))],
    div_round_up(nf, 8) + nf)

\* instance memory whose flags of the fields in bits are set, whose unused flag
\* bits (index >= num_fields) are all pad, and whose field storage holds fill
Instance(msg, bits, pad, fill) ==
  [a \in 0 .. (msg.size - 1) |->
     IF a < msg.set_flags_bytes
       THEN LET On(k) == IF 8 * a + k < msg.num_fields THEN 8 * a + k \in bits ELSE pad
                RECURSIVE Sum(_)
                Sum(k) == IF k = 8 THEN 0 ELSE (IF On(k) THEN Pow2(k) ELSE 0) + Sum(k + 1)
            IN Sum(0)
       ELSE fill]

StorageFill == {165}

Call(op, idx, ret, reads) == [op |-> op, idx |-> idx, ret |-> ret, reads |-> reads]

NoThread == "nobody"
Threads == {"T1", "T2"}

\* no thread is inside a call; the instance has a single owner
Idle == [t \in Threads |-> [at |-> "idle", op |-> "none", idx |-> 0]]
NoTmp == [t \in Threads |-> 0]
NoLock == [on |-> FALSE, holder |-> NoThread]

FieldIdx == 0 .. (m.num_fields - 1)

\* every message type of up to MaxFields fields and every flag content of an
\* instance of it
InitFlags ==
  /\ plat = Platform(TRUE, FALSE, 8)
  /\ \E k \in 0..MaxFields : \E nr \in 0..(MaxFields - k) :
       m = upb_msg_init(FlagsSchema(MaxFields - k, nr))
  /\ \E bits \in SUBSET FieldIdx : \E pad \in BOOLEAN : \E fill \in StorageFill :
       s = Instance(m, bits, pad, fill)
  /\ s0 = <<>>
  /\ lastOp = <<>>
  /\ nops = 0
  /\ last = Call("start", 0, FALSE, {})
  /\ pc = Idle
  /\ tmp = NoTmp
  /\ lock = NoLock

Set(i) ==
  /\ s' = upb_msg_set(s, m.fields[i], plat)
  /\ last' = Call("set", i, FALSE, {})
  /\ UNCHANGED <<plat, m, s0, lastOp, nops, pc, tmp, lock>>

Clear ==
  /\ s' = upb_msg_clear(s, m)
  /\ last' = Call("clear", 0, FALSE, {})
  /\ UNCHANGED <<plat, m, s0, lastOp, nops, pc, tmp, lock>>

\* the bytes an out-of-bounds read of the instance may yield
Junk == IF m.size = 0 THEN Byte ELSE {0}

AllRequired ==
  /\ \E junk \in Junk :
       LET r == upb_msg_all_required_fields_set(s, m, junk)
       IN last' = Call("all_required", 0, r.ret, r.reads)
  /\ UNCHANGED <<plat, m, s, s0, lastOp, nops, pc, tmp, lock>>

Next ==
  \/ \E i \in FieldIdx : Set(i)
  \/ Clear
  \/ AllRequired

Spec == InitFlags /\ [][Next]_vars

(***************************************************************************)
(* What the flags mean, stated apart from the code that handles them       *)
(***************************************************************************)
BitSet(mem, i) == (mem[i \div 8] \div Pow2(i % 8)) % 2 = 1

RequiredIdx(n) == 0 .. (n - 1)

AllRequiredBits(mem, n) == \A i \in RequiredIdx(n) : BitSet(mem, i)

\* the flag bits that belong to no required field: optional fields and the unused
\* bits of the last flags byte
OtherBits(mem, msg) ==
  {i \in 0 .. (8 * msg.set_flags_bytes - 1) : i >= msg.num_required_fields /\ BitSet(mem, i)}

ClearRequired(mem, msg) == {i \in RequiredIdx(msg.num_required_fields) : ~BitSet(mem, i)}

Checked == last.op = "all_required"

\* C1: upb_msg_all_required_fields_set returns true if and only if the flag of
\* every required field is set, whatever the flags of the other fields are and for
\* every number of required fields, zero included.
C1_RequiredIff ==
  Checked => (last.ret <=> AllRequiredBits(s, m.num_required_fields))

\* C2: with at least one required field, a clear flag of a required field makes
\* upb_msg_all_required_fields_set return false, wherever the bit lies and whatever
\* the other bits are; and when exactly one required flag is clear and no other
\* flag bit is set, upb_msg_set on that field makes the check return true.
C2_ClearBitFails ==
  (Checked /\ m.num_required_fields >= 1 /\ ClearRequired(s, m) # {}) => ~last.ret

C2_LastSetCompletes ==
  (/\ last'.op = "set"
   /\ last'.idx \in RequiredIdx(m.num_required_fields)
   /\ ~BitSet(s, last'.idx)
   /\ ClearRequired(s, m) = {last'.idx}
   /\ OtherBits(s, m) = {})
  => \A junk \in Junk : upb_msg_all_required_fields_set(s', m, junk).ret

C2_OneClearBit == [] C2_ClearBitFails /\ [][C2_LastSetCompletes]_vars

\* the check has just refused an instance of ten-odd flags whose only clear
\* required flag is the last bit of the first byte or the first bit of the second,
\* with flags of optional fields set
C2_Witness ==
  /\ Checked /\ ~last.ret
  /\ m.num_required_fields >= 9
  /\ \E i \in {7, 8} : ClearRequired(s, m) = {i}
  /\ OtherBits(s, m) # {}

\* C4: upb_msg_clear leaves no field of the message set, so that the required
\* check fails whenever there is a required field, and leaves every byte after
\* the flags as it was (set_flags_bytes being ceil(num_fields / 8)).
C4_ClearStep ==
  (last'.op = "clear" /\ m.set_flags_bytes = div_round_up(m.num_fields, 8)) =>
    /\ \A i \in FieldIdx : ~upb_msg_is_set(s', m.fields[i], plat)
    /\ m.num_required_fields >= 1 =>
         \A junk \in Junk : ~upb_msg_all_required_fields_set(s', m, junk).ret
    /\ DOMAIN s' = DOMAIN s
    /\ \A a \in DOMAIN s : a >= m.set_flags_bytes => s'[a] = s[a]

C4_ClearAll == [][C4_ClearStep]_vars

\* a message of two flags bytes with a required field has just been cleared, and
\* its field storage still holds data
C4_Witness ==
  /\ last.op = "clear"
  /\ m.num_fields >= 9 /\ m.num_required_fields >= 1
  /\ \A a \in DOMAIN s : a < m.set_flags_bytes <=> s[a] = 0

\* C8: upb_msg_all_required_fields_set reads only the bytes that hold flags of
\* required fields (index < ceil(num_required_fields / 8)): none when there is no
\* required field, and never a byte at or after set_flags_bytes.
C8_ReadsRequiredRegion ==
  Checked =>
    /\ \A b \in last.reads : b < div_round_up(m.num_required_fields, 8)
    /\ m.num_required_fields = 0 => last.reads = {}
    /\ \A b \in last.reads : b < m.set_flags_bytes

\* C9: when num_required_fields is a positive multiple of 8 the check returns
\* true iff every required flag is set, compares exactly the num_required_fields/8
\* bytes of the required region, and gives what the check gives for one required
\* field fewer or more on an instance whose required flags stand the same (all
\* set, or not all set).
C9_Exact ==
  (Checked /\ m.num_required_fields >= 1 /\ m.num_required_fields % 8 = 0) =>
    /\ last.ret <=> AllRequiredBits(s, m.num_required_fields)
    /\ last.reads = 0 .. (m.num_required_fields \div 8 - 1)

C9_MultipleOfEight ==
  (Checked /\ m.num_required_fields >= 1 /\ m.num_required_fields % 8 = 0) =>
    /\ C9_Exact
    /\ \A n \in {m.num_required_fields - 1, m.num_required_fields + 1} :
         (n <= m.num_fields
            /\ (AllRequiredBits(s, n) <=> AllRequiredBits(s, m.num_required_fields)))
         => (RequiredLoop(s, n, 0, {}, 0).ret <=> last.ret)

(***************************************************************************)
(* Sequences of upb_msg_set / upb_msg_unset on one instance, with the      *)
(* history of what was applied to each field                               *)
(***************************************************************************)
Untouched == [i \in FieldIdx |-> "none"]

\* the flag contents a run starts from: nothing set, everything set, every other
\* field set
StartBits == {{}, FieldIdx, {i \in FieldIdx : i % 2 = 1}}

InitBits ==
  /\ plat \in {Platform(cs, FALSE, 8) : cs \in BOOLEAN}
  /\ \E k \in 0..(MaxFields - 1) : m = upb_msg_init(FlagsSchema(MaxFields - k, 0))
  /\ \E bits \in StartBits : \E pad \in BOOLEAN : \E fill \in StorageFill :
       s = Instance(m, bits, pad, fill)
  /\ s0 = s
  /\ lastOp = Untouched
  /\ nops = 0
  /\ last = Call("start", 0, FALSE, {})
  /\ pc = Idle
  /\ tmp = NoTmp
  /\ lock = NoLock

SetFlag(i) ==
  /\ nops < MaxOps
  /\ s' = upb_msg_set(s, m.fields[i], plat)
  /\ lastOp' = [lastOp EXCEPT ![i] = "set"]
  /\ nops' = nops + 1
  /\ last' = Call("set", i, FALSE, {})
  /\ UNCHANGED <<plat, m, s0, pc, tmp, lock>>

UnsetFlag(i) ==
  /\ nops < MaxOps
  /\ s' = upb_msg_unset(s, m.fields[i], plat)
  /\ lastOp' = [lastOp EXCEPT ![i] = "unset"]
  /\ nops' = nops + 1
  /\ last' = Call("unset", i, FALSE, {})
  /\ UNCHANGED <<plat, m, s0, pc, tmp, lock>>

NextBits ==
  \/ \E i \in FieldIdx : SetFlag(i)
  \/ \E i \in FieldIdx : UnsetFlag(i)

SpecBits == InitBits /\ [][NextBits]_vars

\* C3: after any sequence of upb_msg_set / upb_msg_unset calls, upb_msg_is_set of
\* a field is true exactly when the most recent call on that field was a set, and
\* for a field no call targeted it is what it was at the start.
C3_FlagFollowsLastCall ==
  \A i \in FieldIdx :
    upb_msg_is_set(s, m.fields[i], plat) <=>
      IF lastOp[i] = "none" THEN upb_msg_is_set(s0, m.fields[i], plat)
      ELSE lastOp[i] = "set"

\* on a build with signed char: bit 7 of the first byte was set at the start and
\* was unset last, the field in the second byte was clear and was set, and an
\* untouched field of the first byte is still set
C3_Witness ==
  /\ plat.char_signed
  /\ m.num_fields >= 9
  /\ lastOp[7] = "unset" /\ BitSet(s0, 7) /\ ~BitSet(s, 7)
  /\ lastOp[8] = "set" /\ ~BitSet(s0, 8) /\ BitSet(s, 8)
  /\ \E j \in 0..6 : lastOp[j] = "none" /\ upb_msg_is_set(s, m.fields[j], plat)

(***************************************************************************)
(* Building a message description and looking fields up in it              *)
(***************************************************************************)
MaxDeclared == 2

FieldNumbers == {1, 2, 3}
FieldNames == {"a", "b", "c"}
FieldTypes == {"int32", "string"}
FieldLabels == {"required", "optional"}

\* a number and a name no schema below declares
UnknownNumbers == {9999}
UnknownNames == {"zz"}

\* the struct layout of n declared fields: the flags, then eight bytes per field
\* in declaration order
StructOffset(n, i) == div_round_up(n, 8) + 8 * (i - 1)

Schema(n, num, name, type, label) ==
  DescriptorProto(
    [i \in 1..n |-> FieldProto(num[i], name[i], type[i], label[i], StructOffset(n, i))],
    div_round_up(n, 8) + 8 * n)

InitLookup ==
  /\ plat = Platform(TRUE, FALSE, 8)
  /\ m = NoMsg
  /\ s = <<>>
  /\ s0 = <<>>
  /\ lastOp = <<>>
  /\ nops = 0
  /\ last = Call("start", 0, FALSE, {})
  /\ pc = Idle
  /\ tmp = NoTmp
  /\ lock = NoLock

MsgInit(d) ==
  /\ m' = upb_msg_init(d)
  /\ last' = Call("init", 0, m'.ok, {})
  /\ UNCHANGED <<plat, s, s0, lastOp, nops, pc, tmp, lock>>

MsgFree ==
  /\ m.ok
  /\ m' = upb_msg_free(m)
  /\ last' = Call("free", 0, FALSE, {})
  /\ UNCHANGED <<plat, s, s0, lastOp, nops, pc, tmp, lock>>

FieldByNum(number) ==
  /\ m.ok
  /\ last' = Call("fieldbynum", number, upb_msg_fieldbynum(m, number), {})
  /\ UNCHANGED <<plat, m, s, s0, lastOp, nops, pc, tmp, lock>>

FieldByName(name) ==
  /\ m.ok
  /\ last' = Call("fieldbyname", name, upb_msg_fieldbyname(m, name), {})
  /\ UNCHANGED <<plat, m, s, s0, lastOp, nops, pc, tmp, lock>>

\* upb_get_msg_field on the entry a lookup by number has returned
GetMsgField(number) ==
  /\ m.ok
  /\ upb_msg_fieldbynum(m, number) # NULL
  /\ last' = Call("get_msg_field", number,
                  upb_get_msg_field(upb_msg_fieldbynum(m, number), m), {})
  /\ UNCHANGED <<plat, m, s, s0, lastOp, nops, pc, tmp, lock>>

NextLookup ==
  \/ ~m.ok /\ \E n \in 0..MaxDeclared :
       \E num \in [1..n -> FieldNumbers], name \in [1..n -> FieldNames],
          type \in [1..n -> FieldTypes], label \in [1..n -> FieldLabels] :
         MsgInit(Schema(n, num, name, type, label))
  \/ MsgFree
  \/ \E number \in FieldNumbers \cup UnknownNumbers : FieldByNum(number)
  \/ \E name \in FieldNames \cup UnknownNames : FieldByName(name)
  \/ \E number \in FieldNumbers : GetMsgField(number)

SpecLookup == InitLookup /\ [][NextLookup]_vars

\* the declared fields of the message type m was built from
Declared == DeclIdx(m.descriptor)
DeclaredField(i) == Decl(m.descriptor, i)

\* the full descriptor (struct upb_msg_field) of declared field i
FullDescriptor(i) ==
  m.fields[CHOOSE k \in DOMAIN m.fields : m.fields[k].descriptor = i]

LookedUp == last.op \in {"fieldbynum", "fieldbyname"}

KeyOf(i) == IF last.op = "fieldbyname" THEN DeclaredField(i).name ELSE DeclaredField(i).number

\* C6: a lookup by a number or a name that no field of the message type has
\* returns NULL; a lookup returns an entry only for a key upb_msg_init inserted;
\* and a lookup leaves the message description and its tables as they were.
C6_MissIsNull ==
  LookedUp =>
    /\ (\A i \in Declared : KeyOf(i) # last.idx) => last.ret = NULL
    /\ last.ret # NULL => \E i \in Declared : KeyOf(i) = last.idx

C6_LookupReadsOnly == (last'.op \in {"fieldbynum", "fieldbyname"}) => m' = m

C6_NotFound == [] C6_MissIsNull /\ [][C6_LookupReadsOnly]_vars

\* a message type with fields has been asked for the number 9999 and said NULL
C6_Witness ==
  /\ last.op = "fieldbynum" /\ last.idx \in UnknownNumbers /\ last.ret = NULL
  /\ m.ok /\ m.num_fields >= 2

\* C7: after a successful upb_msg_init, looking a field up by its number and by
\* its name gives an entry whose byte_offset, field_index and type are those of
\* the field's full descriptor, and upb_get_msg_field of the entry is that full
\* descriptor.
Agrees(entry, i) ==
  /\ entry # NULL
  /\ entry.byte_offset = FullDescriptor(i).byte_offset
  /\ entry.field_index = FullDescriptor(i).field_index
  /\ entry.type = DeclaredField(FullDescriptor(i).descriptor).type
  /\ entry.byte_offset = DeclaredField(i).byte_offset
  /\ upb_get_msg_field(entry, m) = FullDescriptor(i)

C7_LookupAgrees ==
  /\ m.ok =>
       \A i \in Declared :
         /\ Agrees(upb_msg_fieldbynum(m, DeclaredField(i).number), i)
         /\ Agrees(upb_msg_fieldbyname(m, DeclaredField(i).name), i)
  /\ LookedUp => \A i \in Declared : KeyOf(i) = last.idx => Agrees(last.ret, i)
  /\ last.op = "get_msg_field" =>
       \A i \in Declared : DeclaredField(i).number = last.idx => last.ret = FullDescriptor(i)

\* the second declared field is required and the first is not, so init has put
\* it at index 0; its full descriptor has just been recovered from its entry
C7_Witness ==
  /\ last.op = "get_msg_field"
  /\ m.num_fields >= 2
  /\ ~IsRequired(m.descriptor, 0) /\ IsRequired(m.descriptor, 1)
  /\ last.idx = DeclaredField(1).number
  /\ last.ret.field_index = 0 /\ last.ret.descriptor = 1

(***************************************************************************)
(* Writing and reading field values through the accessors                  *)
(***************************************************************************)
Align(x, a) == ((x + a - 1) \div a) * a

\* a message type of two fields of the given types, laid out as the C struct the
\* compiler emits: the flags byte, then each field at its natural alignment
PairSchema(t1, t2, p) ==
  LET o1 == Align(1, SizeOf(t1, p))
      o2 == Align(o1 + SizeOf(t1, p), SizeOf(t2, p))
  IN DescriptorProto(
       <<FieldProto(1, "a", t1, "optional", o1), FieldProto(2, "b", t2, "optional", o2)>>,
       o2 + SizeOf(t2, p))

PairTypes == {<<"bool", "int64">>, <<"double", "int32">>, <<"string", "bool">>}

Builds == {Platform(TRUE, FALSE, 8), Platform(FALSE, TRUE, 4)}

\* the values written: 0x0102..0n, all bits set, zero; true and false for bool
ValuesOf(name, p) ==
  IF name = "bool" THEN {<<0>>, <<1>>}
  ELSE {[j \in 1..SizeOf(name, p) |-> j],
        [j \in 1..SizeOf(name, p) |-> 255],
        [j \in 1..SizeOf(name, p) |-> 0]}

\* the accessor stays inside the instance (the caller's obligation)
InBounds(name, f) == f.byte_offset + SizeOf(name, plat) <= m.size

InitAcc ==
  /\ plat \in Builds
  /\ \E t \in PairTypes : m = upb_msg_init(PairSchema(t[1], t[2], plat))
  /\ \E bits \in {{}, FieldIdx} : \E fill \in StorageFill : s = Instance(m, bits, FALSE, fill)
  /\ s0 = s
  /\ lastOp = <<>>
  /\ nops = 0
  /\ last = Call("start", 0, FALSE, {})
  /\ pc = Idle
  /\ tmp = NoTmp
  /\ lock = NoLock

SetValue(name, i, val) ==
  /\ nops < MaxOps
  /\ InBounds(name, m.fields[i])
  /\ s' = upb_msg_set_value(name, s, m.fields[i], val, plat)
  /\ nops' = nops + 1
  /\ last' = Call("set_value", <<name, i>>, val, {})
  /\ UNCHANGED <<plat, m, s0, lastOp, pc, tmp, lock>>

\* the get that follows a set, with the same accessor on the same field
GetValue ==
  /\ last.op = "set_value"
  /\ last' = Call("get_value", last.idx,
                  upb_msg_get(last.idx[1], s, m.fields[last.idx[2]], plat), {})
  /\ UNCHANGED <<plat, m, s, s0, lastOp, nops, pc, tmp, lock>>

\* get_ptr, and a read through the pointer, on the field of the last call
GetPtr ==
  /\ last.op \in {"set_value", "get_value"}
  /\ last' = Call("get_ptr", last.idx,
                  LoadThrough(s, upb_msg_get_ptr(last.idx[1], m.fields[last.idx[2]]), plat),
                  {upb_msg_get_ptr(last.idx[1], m.fields[last.idx[2]]).addr})
  /\ UNCHANGED <<plat, m, s, s0, lastOp, nops, pc, tmp, lock>>

NextAcc ==
  \/ \E name \in AccessorNames : \E i \in FieldIdx : \E val \in ValuesOf(name, plat) :
       SetValue(name, i, val)
  \/ GetValue
  \/ GetPtr

SpecAcc == InitAcc /\ [][NextAcc]_vars

FlagBytes(mem) == [a \in 0 .. (m.set_flags_bytes - 1) |-> mem[a]]

\* C5: for every accessor type, field and value, get after set returns the value
\* set; what is read through get_ptr is what get returns, get_ptr being the
\* address s + byte_offset, whether the field's flag is set or not; and set leaves
\* the flags as they were when the field's storage lies after them.
C5_GetAfterSet ==
  (last.op = "set_value" /\ last'.op = "get_value") => last'.ret = last.ret

C5_SetKeepsFlags ==
  (last'.op = "set_value" /\ m.fields[last'.idx[2]].byte_offset >= m.set_flags_bytes)
    => FlagBytes(s') = FlagBytes(s)

C5_PtrReadsWhatGetReturns ==
  /\ \A name \in AccessorNames : \A i \in FieldIdx :
       InBounds(name, m.fields[i]) =>
         /\ upb_msg_get_ptr(name, m.fields[i]).addr = m.fields[i].byte_offset
         /\ LoadThrough(s, upb_msg_get_ptr(name, m.fields[i]), plat)
              = upb_msg_get(name, s, m.fields[i], plat)
  /\ last.op = "get_ptr" =>
       /\ last.reads = {m.fields[last.idx[2]].byte_offset}
       /\ last.ret = upb_msg_get(last.idx[1], s, m.fields[last.idx[2]], plat)

C5_Accessors ==
  /\ [] C5_PtrReadsWhatGetReturns
  /\ [][C5_GetAfterSet /\ C5_SetKeepsFlags]_vars

\* on a big-endian build, 0x0102030405060708 was stored through the int64
\* accessor into a field whose flag is clear, and get has returned it
C5_Witness ==
  /\ last.op = "get_value" /\ last.idx[1] = "int64"
  /\ last.ret = <<1, 2, 3, 4, 5, 6, 7, 8>>
  /\ plat.big_endian
  /\ ~BitSet(s, last.idx[2])

(***************************************************************************)
(* Two threads calling upb_msg_set / upb_msg_unset on one instance.  The   *)
(* "|=" and "&=" are a load of the flags byte and a store to it.  When the *)
(* embedding system serializes the calls (lock.on), a thread holds the     *)
(* lock for the length of its call.                                        *)
(***************************************************************************)
FlagOps == {"set", "unset"}

InitRace ==
  /\ plat \in {Platform(cs, FALSE, 8) : cs \in BOOLEAN}
  /\ m = upb_msg_init(FlagsSchema(MaxFields, 0))
  /\ \E bits \in StartBits : \E pad \in BOOLEAN : \E fill \in StorageFill :
       s = Instance(m, bits, pad, fill)
  /\ s0 = s
  /\ lastOp = <<>>
  /\ nops = 0
  /\ last = Call("start", 0, FALSE, {})
  /\ \E i, j \in FieldIdx : \E a, b \in FlagOps :
       /\ i # j
       /\ pc = [t \in Threads |->
                  [at |-> "call", op |-> IF t = "T1" THEN a ELSE b, idx |-> IF t = "T1" THEN i ELSE j]]
  /\ tmp = NoTmp
  /\ lock \in {[on |-> b, holder |-> NoThread] : b \in BOOLEAN}

\* the embedding system's lock, taken before the call
Lock(t) ==
  /\ pc[t].at = "call"
  /\ lock.on /\ lock.holder = NoThread
  /\ lock' = [lock EXCEPT !.holder = t]
  /\ UNCHANGED <<plat, m, s, s0, lastOp, nops, last, pc, tmp>>

\* the read of s[upb_isset_offset(field_index)]
Load(t) ==
  /\ pc[t].at = "call"
  /\ lock.on => lock.holder = t
  /\ tmp' = [tmp EXCEPT ![t] = s[upb_isset_offset(m.fields[pc[t].idx].field_index)]]
  /\ pc' = [pc EXCEPT ![t].at = "loaded"]
  /\ UNCHANGED <<plat, m, s, s0, lastOp, nops, last, lock>>

\* the write of the byte computed from the value read
Store(t) ==
  /\ pc[t].at = "loaded"
  /\ LET f == m.fields[pc[t].idx]
         o == upb_isset_offset(f.field_index)
         seen == [s EXCEPT ![o] = tmp[t]]
     IN s' = [s EXCEPT ![o] =
                IF pc[t].op = "set" THEN upb_msg_set(seen, f, plat)[o]
                ELSE upb_msg_unset(seen, f, plat)[o]]
  /\ pc' = [pc EXCEPT ![t].at = IF lock.on THEN "returned" ELSE "done"]
  /\ UNCHANGED <<plat, m, s0, lastOp, nops, last, tmp, lock>>

\* the embedding system's lock, released after the call
Unlock(t) ==
  /\ pc[t].at = "returned"
  /\ lock.holder = t
  /\ lock' = [lock EXCEPT !.holder = NoThread]
  /\ pc' = [pc EXCEPT ![t].at = "done"]
  /\ UNCHANGED <<plat, m, s, s0, lastOp, nops, last, tmp>>

NextRace ==
  \/ \E t \in Threads : Lock(t)
  \/ \E t \in Threads : Load(t)
  \/ \E t \in Threads : Store(t)
  \/ \E t \in Threads : Unlock(t)

SpecRace == InitRace /\ [][NextRace]_vars

BothDone == \A t \in Threads : pc[t].at = "done"

\* the flag of thread t's field stands as its call leaves it
Effect(t) == IF pc[t].op = "set" THEN BitSet(s, pc[t].idx) ELSE ~BitSet(s, pc[t].idx)

SameByte == upb_isset_offset(pc["T1"].idx) = upb_isset_offset(pc["T2"].idx)

OtherFlagsKept ==
  \A i \in 0 .. (8 * m.set_flags_bytes - 1) :
    (i # pc["T1"].idx /\ i # pc["T2"].idx) => (BitSet(s, i) <=> BitSet(s0, i))

\* C10: upb_msg_set and upb_msg_unset are a read of one flags byte followed by a
\* write of it, with no synchronization of their own.  When the two calls are
\* serialized the final byte shows both, in every interleaving; unserialized, on
\* two fields of one byte, an interleaving loses one of the two (the witness),
\* never both, and no other flag is disturbed.
C10_Final ==
  BothDone =>
    /\ OtherFlagsKept
    /\ Effect("T1") \/ Effect("T2")
    /\ (lock.on \/ ~SameByte) => (Effect("T1") /\ Effect("T2"))

C10_ByteSteps ==
  /\ (\E a \in DOMAIN s : s'[a] # s[a]) =>
       \E t \in Threads :
         /\ pc[t].at = "loaded" /\ pc'[t].at # "loaded"
         /\ \A a \in DOMAIN s : a # upb_isset_offset(pc[t].idx) => s'[a] = s[a]
  /\ \A t \in Threads :
       (pc[t].at = "call" /\ pc'[t].at = "loaded") =>
         (s' = s /\ tmp'[t] = s[upb_isset_offset(pc[t].idx)])

C10_Unsynchronized == [] C10_Final /\ [][C10_ByteSteps]_vars

\* unserialized, both calls have returned and the flags byte the two fields share
\* lacks what one of them did
C10_Witness ==
  /\ BothDone /\ ~lock.on /\ SameByte
  /\ ~(Effect("T1") /\ Effect("T2"))

====
